---- MODULE Spec2Model ----
(***************************************************************************)
(* The tool-routing decision loop of lg-Add-Tools: the command loop of     *)
(* main.py (main), one run of the compiled graph (stream_graph_updates,    *)
(* chatbot, route_tools, BasicToolNode.__call__) and the earlier           *)
(* route_tools of main2.py.                                                *)
(*                                                                         *)
(* Text (an input line, a message's content) is a sequence of one-letter   *)
(* strings, so that str.lower() and truthiness are computed, not assumed.  *)
(***************************************************************************)
EXTENDS Integers, Sequences, FiniteSets, TLC

VARIABLES
    pc,            \* main(): "input" | "run" | "fallback" | "done" | "crashed";
                   \* "fn" in FnSpec, where single functions are called
    node,          \* the graph's position in the current run
    messages,      \* the State's messages channel
    user_input,    \* main()'s local user_input
    sent,          \* the conversation last handed to llm_with_tools.invoke
    err,           \* the exception now propagating out of the run, or "none"
    ret,           \* what the node or function that ran last returned or raised
    printed,       \* what the step that ran last printed
    started        \* runs started since the last line was read

vars == <<pc, node, messages, user_input, sent, err, ret, printed, started>>

-----------------------------------------------------------------------------
(* Bounds of the model *)

\* most tool-call requests in one reply of the model
MaxCalls == 2
\* the longest conversation a run still hands to the model
MaxMessages == 4

-----------------------------------------------------------------------------
(* Text *)

Upper == <<"A","B","C","D","E","F","G","H","I","J","K","L","M",
           "N","O","P","Q","R","S","T","U","V","W","X","Y","Z">>
LowerLetters == <<"a","b","c","d","e","f","g","h","i","j","k","l","m",
                  "n","o","p","q","r","s","t","u","v","w","x","y","z">>

\* str.lower() on one letter
LowerChar(c) ==
    IF \E i \in DOMAIN Upper : Upper[i] = c
    THEN LowerLetters[CHOOSE i \in DOMAIN Upper : Upper[i] = c]
    ELSE c

\* a comparison that forgets .lower()
lower_unchanged(s) == s

\* str.lower()
lower(s) == [i \in DOMAIN s |-> LowerChar(s[i])]

QuitCommands == { <<"q","u","i","t">>, <<"e","x","i","t">>, <<"q">> }
DrawCommands == { <<"d","r","a","w">>, <<"g","r","a","p","h">>, <<"s","h","o","w">> }

\* "What is the weather in SF?"
CannedInput ==
    <<"W","h","a","t"," ","i","s"," ","t","h","e"," ","w","e","a","t","h","e","r",
      " ","i","n"," ","S","F","?">>

\* the lines input() returns in the model
Lines ==
    { <<"q","u","i","t">>, <<"Q","u","i","t">>, <<"E","X","I","T">>, <<"q">>, <<"Q">>,
      <<"d","r","a","w">>, <<"G","r","a","p","h">>, <<"S","H","O","W">>,
      <<"q","u","i","t"," ">>, <<"2","+","2","?">>, <<>> }

-----------------------------------------------------------------------------
(* Messages *)

HumanMessage(content) ==
    [type |-> "human", content |-> content, tool_calls |-> <<>>,
     name |-> "", tool_call_id |-> ""]

AIMessage(content, tool_calls) ==
    [type |-> "ai", content |-> content, tool_calls |-> tool_calls,
     name |-> "", tool_call_id |-> ""]

\* name and tool_call_id taken for each other
ToolMessage_swapped(content, name, tool_call_id) ==
    [type |-> "tool", content |-> content, tool_calls |-> <<>>,
     name |-> tool_call_id, tool_call_id |-> name]

ToolMessage(content, name, tool_call_id) ==
    [type |-> "tool", content |-> content, tool_calls |-> <<>>,
     name |-> name, tool_call_id |-> tool_call_id]

\* hasattr(message, "tool_calls"): only an AIMessage has the attribute
hasattr_tool_calls(m) == m.type = "ai"

\* tools = [TavilySearch(max_results=2)]
tools == << [name |-> "tavily_search"] >>

\* BasicToolNode.__init__: {tool.name: tool for tool in tools}
tools_by_name == { tools[i].name : i \in DOMAIN tools }

\* the tool-call requests the model may emit: two for the registered tool,
\* told apart by their identifiers, and one for a tool nobody registered
ToolCall(name, id) == [name |-> name, args |-> [query |-> "weather in SF"], id |-> id]
ToolCallSet ==
    { ToolCall("tavily_search", "call_1"), ToolCall("tavily_search", "call_2"),
      ToolCall("calculator", "call_3") }

ToolCallLists == UNION { [1..n -> ToolCallSet] : n \in 0..MaxCalls }

\* what llm_with_tools.invoke may return
Replies ==
    { AIMessage(c, <<>>) : c \in { <<>>, <<"4">> } }
    \cup { AIMessage(<<>>, tcs) : tcs \in ToolCallLists \ {<<>>} }

\* the tool's result for a call's arguments
tool_invoke(args) == [query |-> args.query, results |-> "sunny"]

\* json.dumps of a tool result
json_dumps(r) == <<"{", "query", ":", r.query, ",", "results", ":", r.results, "}">>

-----------------------------------------------------------------------------
(* The graph state and its reducer *)

\* add_messages turns a dict {"role": "user", "content": c} into a HumanMessage
\* and leaves message objects as they are
Coerce(m) == IF "role" \in DOMAIN m THEN HumanMessage(m.content) ELSE m

\* a channel without the reducer: the update replaces the value
add_messages_overwrite(left, right) == [i \in DOMAIN right |-> Coerce(right[i])]

\* Annotated[list, add_messages]: the update is appended to the channel
add_messages(left, right) == left \o [i \in DOMAIN right |-> Coerce(right[i])]

\* a graph compiled with a checkpointer and one thread
PersistedState_checkpointed(ms) == ms

\* graph_builder.compile() names no checkpointer: nothing of a run's state is
\* kept for the next graph.stream call
PersistedState(ms) == <<>>

\* {"messages": [{"role": "user", "content": user_input}]}
GraphInput(line) == << [role |-> "user", content |-> line] >>

-----------------------------------------------------------------------------
(* The nodes' functions.  A State is [form |-> "dict", messages |-> ms], a   *)
(* dict without the key is [form |-> "nokey"], and main2.py's route_tools    *)
(* also takes a bare list, [form |-> "list", messages |-> ms].               *)

END == "__end__"

StateOf(ms) == [form |-> "dict", messages |-> ms]

\* state.get("messages", [])
get_messages(state) == IF state.form = "dict" THEN state.messages ELSE <<>>

Return(v) == [kind |-> "return", value |-> v, exc |-> "none"]
Raise(e) == [kind |-> "raise", value |-> <<>>, exc |-> e]

\* main.py's route_tools with main2.py's treatment of the empty conversation
route_tools_raises_on_empty(state) ==
    LET ms == get_messages(state) IN
    IF ms = <<>> THEN Raise("ValueError")
    ELSE IF hasattr_tool_calls(ms[Len(ms)]) /\ Len(ms[Len(ms)].tool_calls) > 0
         THEN Return("tools")
         ELSE Return(END)

\* a route_tools that does not look at the requests
route_tools_always_tools(state) ==
    LET ms == get_messages(state) IN
    IF ms = <<>> THEN Return(END) ELSE Return("tools")

\* main.py, route_tools
route_tools(state) ==
    LET ms == get_messages(state) IN
    IF ms = <<>> THEN Return(END)
    ELSE LET ai_message == ms[Len(ms)] IN
         IF hasattr_tool_calls(ai_message) /\ Len(ai_message.tool_calls) > 0
         THEN Return("tools")
         ELSE Return(END)

\* main2.py, route_tools
route_tools_main2(state) ==
    IF state.form = "list" /\ state.messages = <<>> THEN Raise("IndexError")
    ELSE IF state.form # "list" /\ get_messages(state) = <<>> THEN Raise("ValueError")
    ELSE LET ms == state.messages
             ai_message == ms[Len(ms)] IN
         IF hasattr_tool_calls(ai_message) /\ Len(ai_message.tool_calls) > 0
         THEN Return("tools")
         ELSE Return(END)

\* The loop of BasicToolNode.__call__ from request i on, with the outputs so
\* far.  outcomes[i] says whether the i-th invocation returns or raises.
RECURSIVE ToolLoop(_, _, _, _)
ToolLoop(tool_calls, outcomes, i, outputs) ==
    IF i > Len(tool_calls) THEN Return(outputs)
    ELSE LET tool_call == tool_calls[i] IN
         IF tool_call.name \notin tools_by_name THEN Raise("KeyError")
         ELSE IF outcomes[i] = "raise" THEN Raise("ToolException")
         ELSE ToolLoop(tool_calls, outcomes, i + 1,
                       Append(outputs,
                              ToolMessage(json_dumps(tool_invoke(tool_call.args)),
                                          tool_call.name, tool_call.id)))

RECURSIVE ToolLoopReversed(_, _, _, _)
ToolLoopReversed(tool_calls, outcomes, i, outputs) ==
    IF i > Len(tool_calls) THEN Return(outputs)
    ELSE LET tool_call == tool_calls[i] IN
         IF tool_call.name \notin tools_by_name THEN Raise("KeyError")
         ELSE IF outcomes[i] = "raise" THEN Raise("ToolException")
         ELSE ToolLoopReversed(tool_calls, outcomes, i + 1,
                       <<ToolMessage(json_dumps(tool_invoke(tool_call.args)),
                                     tool_call.name, tool_call.id)>> \o outputs)

\* a tool node that answers the requests in the wrong order
BasicToolNode_reversed(inputs, outcomes) ==
    LET ms == get_messages(inputs) IN
    IF ms = <<>> THEN Raise("ValueError")
    ELSE IF ~hasattr_tool_calls(ms[Len(ms)]) THEN Raise("AttributeError")
    ELSE ToolLoopReversed(ms[Len(ms)].tool_calls, outcomes, 1, <<>>)

RECURSIVE ToolLoopSkipping(_, _, _, _)
ToolLoopSkipping(tool_calls, outcomes, i, outputs) ==
    IF i > Len(tool_calls) THEN Return(outputs)
    ELSE LET tool_call == tool_calls[i] IN
         IF tool_call.name \notin tools_by_name
         THEN ToolLoopSkipping(tool_calls, outcomes, i + 1, outputs)
         ELSE IF outcomes[i] = "raise" THEN Raise("ToolException")
         ELSE ToolLoopSkipping(tool_calls, outcomes, i + 1,
                       Append(outputs,
                              ToolMessage(json_dumps(tool_invoke(tool_call.args)),
                                          tool_call.name, tool_call.id)))

\* a tool node that skips a request for an unknown tool and keeps the rest
BasicToolNode_skipping(inputs, outcomes) ==
    LET ms == get_messages(inputs) IN
    IF ms = <<>> THEN Raise("ValueError")
    ELSE IF ~hasattr_tool_calls(ms[Len(ms)]) THEN Raise("AttributeError")
    ELSE ToolLoopSkipping(ms[Len(ms)].tool_calls, outcomes, 1, <<>>)

\* BasicToolNode.__call__
BasicToolNode(inputs, outcomes) ==
    LET ms == get_messages(inputs) IN
    IF ms = <<>> THEN Raise("ValueError")
    ELSE LET message == ms[Len(ms)] IN
         IF ~hasattr_tool_calls(message) THEN Raise("AttributeError")
         ELSE ToolLoop(message.tool_calls, outcomes, 1, <<>>)

\* the ways the invocations of n requests may end
Outcomes(n) == [1..n -> {"return", "raise"}]

-----------------------------------------------------------------------------
(* One run of the graph: START -> chatbot -> route_tools -> tools | END,    *)
(* tools -> chatbot, streamed by stream_graph_updates.                      *)

Last(ms) == ms[Len(ms)]

\* the record of a call: the function, the state it was given, how the tool
\* invocations it made ended, and what it returned or raised
Call(fn, arg, outcomes, res) == [fn |-> fn, arg |-> arg, outcomes |-> outcomes, res |-> res]

NoCall == Call("none", StateOf(<<>>), <<>>, Return(<<>>))

\* graph_builder.add_edge(START, "chatbot")
EntryPoint == "chatbot"

\* an edge from tools to END
AfterTools_end == "END"

\* graph_builder.add_edge("tools", "chatbot")
AfterTools == "chatbot"

\* the path map of add_conditional_edges: {"tools": "tools", END: END}
PathMap(value) == IF value = "tools" THEN "tools" ELSE "END"

\* a handler without its break
AfterStream_no_break(p) == "input"

\* where main() goes when stream_graph_updates returns: the top of the loop
\* after the call in the try block, the break after the call in the handler
AfterStream(p) == IF p = "run" THEN "input" ELSE "done"

Line(text, arg) == [text |-> text, arg |-> arg]

\* stream_graph_updates prints the content of the last message of a node's
\* update when that content is not empty
StreamPrint(update) ==
    IF Last(update).content # <<>>
    THEN << Line("Assistant:", Last(update).content) >>
    ELSE <<>>

\* graph.stream(input): the run starts at the entry point with the input
\* merged into what the graph kept of earlier runs
StartStream(line) ==
    /\ messages' = add_messages(PersistedState(messages), GraphInput(line))
    /\ node' = EntryPoint
    /\ sent' = <<>>
    /\ err' = "none"

InRun == pc \in {"run", "fallback"}

\* the chatbot node: llm_with_tools.invoke(state["messages"]) returns a reply
\* or raises
chatbot ==
    /\ InRun /\ node = "chatbot"
    /\ Len(messages) <= MaxMessages
    /\ sent' = messages
    /\ \/ \E reply \in Replies :
            /\ messages' = add_messages(messages, <<reply>>)
            /\ ret' = Call("chatbot", StateOf(messages), <<>>, Return(<<reply>>))
            /\ printed' = StreamPrint(<<reply>>)
            /\ node' = "route"
            /\ err' = "none"
       \/ /\ ret' = Call("chatbot", StateOf(messages), <<>>, Raise("APIError"))
          /\ node' = "error"
          /\ err' = "APIError"
          /\ printed' = <<>>
          /\ UNCHANGED messages
    /\ UNCHANGED <<pc, user_input, started>>

\* the conditional edge from chatbot: route_tools and its path map
\* {"tools": "tools", END: END}
route ==
    /\ InRun /\ node = "route"
    /\ LET res == route_tools(StateOf(messages)) IN
        /\ ret' = Call("route_tools", StateOf(messages), <<>>, res)
        /\ IF res.kind = "raise"
           THEN node' = "error" /\ err' = res.exc
           ELSE /\ node' = PathMap(res.value)
                /\ err' = "none"
    /\ printed' = <<>>
    /\ UNCHANGED <<pc, messages, user_input, sent, started>>

\* the tools node: BasicToolNode.__call__ on the state; its update is merged
\* and streamed, an exception leaves the channel as it was
tool_node ==
    /\ InRun /\ node = "tools"
    /\ \E outcomes \in Outcomes(Len(Last(messages).tool_calls)) :
        LET res == BasicToolNode(StateOf(messages), outcomes) IN
        /\ ret' = Call("tools", StateOf(messages), outcomes, res)
        /\ IF res.kind = "raise"
           THEN /\ node' = "error" /\ err' = res.exc
                /\ printed' = <<>>
                /\ UNCHANGED messages
           ELSE /\ messages' = add_messages(messages, res.value)
                /\ IF res.value = <<>>
                   \* value['messages'][-1] of an empty update
                   THEN node' = "error" /\ err' = "IndexError" /\ printed' = <<>>
                   ELSE /\ node' = AfterTools /\ err' = "none"
                        /\ printed' = StreamPrint(res.value)
    /\ UNCHANGED <<pc, user_input, sent, started>>

-----------------------------------------------------------------------------
(* main(): the command loop *)

Goodbye == << Line("Goodbye!", <<>>) >>

\* one input() and the if/elif that dispatches the line; a line that is no
\* command starts stream_graph_updates(user_input)
ReadLine ==
    /\ pc = "input"
    /\ \E line \in Lines :
        /\ user_input' = line
        /\ IF lower(line) \in QuitCommands
           THEN /\ pc' = "done"
                /\ printed' = Goodbye
                /\ started' = 0
                /\ UNCHANGED <<node, messages, sent, err, ret>>
           ELSE IF lower(line) \in DrawCommands
           THEN /\ pc' = "input"
                /\ \E drawn \in BOOLEAN :
                     /\ ret' = Call("draw_graph", StateOf(<<>>), <<>>, Return(<<>>))
                     /\ printed' = << Line("Attempting to draw the graph...", <<>>) >>
                                   \o (IF drawn THEN <<>>
                                       ELSE << Line("Error drawing graph:", <<>>) >>)
                /\ started' = 0
                /\ UNCHANGED <<node, messages, sent, err>>
           ELSE /\ pc' = "run"
                /\ StartStream(line)
                /\ started' = 1
                /\ printed' = <<>>
                /\ UNCHANGED ret

\* input() raises EOFError, or KeyboardInterrupt at the prompt
InputEnds ==
    /\ pc = "input"
    /\ pc' = "done"
    /\ printed' = Goodbye
    /\ UNCHANGED <<node, messages, user_input, sent, err, ret, started>>

\* the graph reached END: stream_graph_updates returns; the loop reads the
\* next line, or breaks when this was the canned example
StreamReturns ==
    /\ InRun /\ node = "END"
    /\ pc' = AfterStream(pc)
    /\ node' = "none"
    /\ messages' = PersistedState(messages)
    /\ sent' = <<>>
    /\ printed' = <<>>
    /\ UNCHANGED <<user_input, err, ret, started>>

\* except Exception: print it, run the canned example once and break.  An
\* exception of the canned example is raised inside the handler: nothing
\* catches it
HandleException ==
    /\ InRun /\ node = "error"
    /\ IF pc = "run"
       THEN /\ pc' = "fallback"
            /\ user_input' = CannedInput
            /\ printed' = << Line("An unexpected error occurred:", <<err>>),
                             Line("Switching to a non-interactive example.", <<>>),
                             Line("User: ", CannedInput) >>
            /\ StartStream(CannedInput)
            /\ started' = started + 1
            /\ UNCHANGED ret
       ELSE /\ pc' = "crashed"
            /\ node' = "none"
            /\ messages' = PersistedState(messages)
            /\ sent' = <<>>
            /\ printed' = <<>>
            /\ UNCHANGED <<user_input, err, ret, started>>

Init ==
    /\ pc = "input"
    /\ node = "none"
    /\ messages = <<>>
    /\ user_input = <<>>
    /\ sent = <<>>
    /\ err = "none"
    /\ ret = NoCall
    /\ printed = <<>>
    /\ started = 0

Next ==
    \/ ReadLine
    \/ InputEnds
    \/ chatbot
    \/ route
    \/ tool_node
    \/ StreamReturns
    \/ HandleException

Spec == Init /\ [][Next]_vars

-----------------------------------------------------------------------------
(* The node functions on their own: any conversation, the empty one and     *)
(* those a run never hands them included, in each form a state can take.    *)

FnMessages ==
    Replies
    \cup { HumanMessage(<<"2","+","2","?">>) }
    \cup { ToolMessage(json_dumps(tool_invoke(c.args)), c.name, c.id) : c \in ToolCallSet }

FnConversations ==
    {<<>>}
    \cup { <<m>> : m \in FnMessages }
    \cup { <<HumanMessage(<<"2","+","2","?">>), m>> : m \in FnMessages }

\* the state a caller passes for a conversation: the dict, a dict without
\* the key when there is nothing to put under it, or the bare list
FnState(form, ms) == [form |-> form, messages |-> IF form = "nokey" THEN <<>> ELSE ms]

FnForms(ms) == {"dict", "list"} \cup (IF ms = <<>> THEN {"nokey"} ELSE {})

FnInit ==
    /\ pc = "fn"
    /\ node = "none"
    /\ messages \in FnConversations
    /\ user_input = <<>>
    /\ sent = <<>>
    /\ err = "none"
    /\ ret = NoCall
    /\ printed = <<>>
    /\ started = 0

\* main.py's route_tools on a State
CallRouteTools ==
    /\ pc = "fn"
    /\ \E form \in FnForms(messages) \ {"list"} :
        ret' = Call("route_tools", FnState(form, messages), <<>>,
                    route_tools(FnState(form, messages)))
    /\ UNCHANGED <<pc, node, messages, user_input, sent, err, printed, started>>

\* main2.py's route_tools on a State or a list
CallRouteToolsMain2 ==
    /\ pc = "fn"
    /\ \E form \in FnForms(messages) :
        ret' = Call("route_tools_main2", FnState(form, messages), <<>>,
                    route_tools_main2(FnState(form, messages)))
    /\ UNCHANGED <<pc, node, messages, user_input, sent, err, printed, started>>

\* BasicToolNode.__call__ on a State
CallToolNode ==
    /\ pc = "fn"
    /\ \E form \in FnForms(messages) \ {"list"} :
       \E outcomes \in Outcomes(IF messages = <<>> THEN 0
                                ELSE Len(Last(messages).tool_calls)) :
        ret' = Call("tools", FnState(form, messages), outcomes,
                    BasicToolNode(FnState(form, messages), outcomes))
    /\ UNCHANGED <<pc, node, messages, user_input, sent, err, printed, started>>

FnNext ==
    \/ CallRouteTools
    \/ CallRouteToolsMain2
    \/ CallToolNode

FnSpec == FnInit /\ [][FnNext]_vars

-----------------------------------------------------------------------------
(* Properties *)

IsPrefix(a, b) == Len(a) <= Len(b) /\ \A i \in DOMAIN a : a[i] = b[i]

\* the last message of a state's conversation is an assistant message
EndsWithAssistant(state) ==
    /\ state.form = "dict"
    /\ state.messages # <<>>
    /\ Last(state.messages).type = "ai"

Requests(state) == Last(state.messages).tool_calls

AllRegistered(calls) == \A i \in DOMAIN calls : calls[i].name \in {"tavily_search"}

AllReturn(outcomes) == \A i \in DOMAIN outcomes : outcomes[i] = "return"

\* the tool messages that answer the requests, one each, in their order
AnswersInOrder(outputs, calls) ==
    /\ Len(outputs) = Len(calls)
    /\ \A i \in DOMAIN outputs :
         /\ outputs[i].type = "tool"
         /\ outputs[i].tool_call_id = calls[i].id
         /\ outputs[i].name = calls[i].name

ExpectedRoute(state) ==
    IF /\ state.messages # <<>>
       /\ Last(state.messages).type = "ai"
       /\ Len(Last(state.messages).tool_calls) >= 1
    THEN "tools" ELSE END

C3_ConversationAppendOnly ==
    [][(InRun /\ pc' = pc) => IsPrefix(messages, messages')]_vars

Types(ms) == [i \in DOMAIN ms |-> ms[i].type]

\* a run went through a Model Step, a Tool Step and a second Model Step
C3_Witness ==
    /\ InRun /\ node = "route"
    /\ Types(messages) = <<"human", "ai", "tool", "ai">>

HasUnknownTool(calls) == \E i \in DOMAIN calls : calls[i].name \notin {"tavily_search"}

\* the first request for an unregistered tool
FirstUnknown(calls) ==
    CHOOSE i \in DOMAIN calls :
        /\ calls[i].name \notin {"tavily_search"}
        /\ \A j \in 1..(i - 1) : calls[j].name \in {"tavily_search"}

\* the invocations made for the requests before the first unknown one returned
EarlierInvocationsReturn(calls, outcomes) ==
    \A j \in 1..(FirstUnknown(calls) - 1) : outcomes[j] = "return"

C5_ToolResultsAnswerPrecedingAssistant ==
    \A i \in DOMAIN messages :
        messages[i].type = "tool" =>
            \E j \in 1..(i - 1) :
                /\ messages[j].type = "ai"
                /\ \A k \in (j + 1)..(i - 1) : messages[k].type = "tool"
                /\ \E c \in DOMAIN messages[j].tool_calls :
                       messages[j].tool_calls[c].id = messages[i].tool_call_id

\* two tool messages after an assistant message with two requests
C5_Witness ==
    /\ InRun
    /\ Types(messages) = <<"human", "ai", "tool", "tool">>
    /\ messages[3].tool_call_id # messages[4].tool_call_id


\* two letters that differ at most in case
SameLetter(a, b) ==
    a = b \/ \E k \in DOMAIN Upper : {a, b} = {Upper[k], LowerLetters[k]}

\* a line equal to a word but for the case of its letters
EqualsIgnoringCase(line, word) ==
    Len(line) = Len(word) /\ \A i \in DOMAIN line : SameLetter(line[i], word[i])

IsQuitLine(line) == \E w \in { <<"q","u","i","t">>, <<"e","x","i","t">>, <<"q">> } :
                        EqualsIgnoringCase(line, w)
IsDrawLine(line) == \E w \in { <<"d","r","a","w">>, <<"g","r","a","p","h">>,
                               <<"s","h","o","w">> } :
                        EqualsIgnoringCase(line, w)

\* C6: the command loop dispatches a line by one rule: quit, exit or q (in
\* any case) ends the loop and starts no run; draw, graph or show (in any
\* case) draws the graph and reads on, with no run and no user message;
\* any other line starts exactly one run, whose conversation is that line as
\* a user message.
C6_CommandLoopDispatch ==
    [][ReadLine =>
         \/ /\ IsQuitLine(user_input')
            /\ pc' = "done" /\ started' = 0
            /\ node' = "none" /\ messages' = <<>>
         \/ /\ IsDrawLine(user_input')
            /\ pc' = "input" /\ started' = 0
            /\ ret'.fn = "draw_graph"
            /\ node' = "none" /\ messages' = <<>>
         \/ /\ ~IsQuitLine(user_input') /\ ~IsDrawLine(user_input')
            /\ pc' = "run" /\ started' = 1
            /\ node' = "chatbot"
            /\ messages' = <<HumanMessage(user_input')>>]_vars

\* EXIT in capitals ended the loop without a run
C6_Witness ==
    /\ pc = "done" /\ user_input = <<"E","X","I","T">> /\ started = 0

\* C7: an exception of a step is not retried or recovered inside the run:
\* the step that raised is the run's last.  When it reaches the command loop,
\* the loop prints it, runs the canned example "What is the weather in SF?"
\* once, and exits: no line is read after it.
C7_FailureFallsBackOnceThenExits ==
    /\ [][((chatbot \/ route \/ tool_node) /\ ret'.res.kind = "raise")
          => node' = "error" /\ err' = ret'.res.exc /\ messages' = messages]_vars
    /\ [][(InRun /\ node = "error") => pc' \in {"fallback", "crashed"}]_vars
    /\ [][(pc = "run" /\ node = "error")
          => /\ pc' = "fallback"
             /\ printed'[1] = Line("An unexpected error occurred:", <<err>>)
             /\ user_input' = CannedInput
             /\ messages' = <<HumanMessage(CannedInput)>>
             /\ node' = "chatbot"
             /\ started' = started + 1]_vars
    /\ [][pc = "fallback"
          => /\ pc' \in {"fallback", "done", "crashed"}
             /\ user_input' = user_input
             /\ started' = started]_vars
    /\ [][(pc \in {"done", "crashed"}) => (vars' = vars)]_vars
    /\ [](pc = "fallback" => started = 2)

\* a run failed, the canned example ran to its end and the loop exited
C7_Witness ==
    /\ pc = "done" /\ user_input = CannedInput /\ started = 2
    /\ ret.fn = "route_tools"


\* the steps of a run
Edges ==
    { <<"chatbot", "route">>, <<"chatbot", "error">>,
      <<"route", "tools">>, <<"route", "END">>,
      <<"tools", "chatbot">>, <<"tools", "error">> }

NoRequests(m) == m.type = "ai" /\ m.tool_calls = <<>>

\* user message, groups of (assistant message with N >= 1 requests, N tool
\* messages), then one assistant message without requests
FinalShape(ms) ==
    /\ Len(ms) >= 2
    /\ ms[1].type = "human"
    /\ ms[2].type = "ai"
    /\ NoRequests(Last(ms))
    /\ \A i \in 2..Len(ms) :
         /\ ms[i].type # "human"
         /\ ms[i].type = "ai" =>
              LET N == Len(ms[i].tool_calls) IN
              IF i = Len(ms) THEN N = 0
              ELSE /\ N >= 1
                   /\ i + N + 1 <= Len(ms)
                   /\ \A k \in 1..N : ms[i + k].type = "tool"
                   /\ ms[i + N + 1].type = "ai"

\* C8: a run is the cycle Model Step -> Router -> (Tool Step -> Model Step)
\* | END.  It starts at the Model Step; the Router follows each Model Step
\* and nothing else; a Tool Step that returns is followed by a Model Step; a
\* Model Step that returns appends exactly one message; only the Router ends
\* a run that did not fail, and the conversation then is the user message,
\* groups of an assistant message with N >= 1 requests and its N tool
\* messages, and a last assistant message without requests.
C8_RunFollowsTheCycle ==
    /\ [][(InRun' /\ (~InRun \/ pc' # pc))
          => node' = "chatbot" /\ Len(messages') = 1 /\ messages'[1].type = "human"]_vars
    /\ [][(InRun /\ pc' = pc /\ node' # node) => <<node, node'>> \in Edges]_vars
    /\ [][(InRun /\ pc' = pc /\ node = "chatbot" /\ node' = "route")
          => /\ Len(messages') = Len(messages) + 1
             /\ IsPrefix(messages, messages')
             /\ Last(messages').type = "ai"]_vars
    /\ [][(InRun /\ pc' = pc /\ node = "tools" /\ node' = "chatbot")
          => /\ Len(messages') = Len(messages) + Len(Last(messages).tool_calls)
             /\ Len(Last(messages).tool_calls) >= 1]_vars
    /\ [][(InRun /\ pc' = pc /\ node = "route") => messages' = messages]_vars
    /\ [](node = "END" => FinalShape(messages))

\* a run ended after one group of two requests and their two results
C8_Witness ==
    /\ InRun /\ node = "END"
    /\ Types(messages) = <<"human", "ai", "tool", "tool", "ai">>

PlainReplies == { m \in Replies : m.tool_calls = <<>> }

\* C9: the Router ends a run exactly when the Model Step's reply has no
\* requests.  Once the model has returned such a reply, the run reaches END
\* with that reply as its last message; the Router selects END for no other
\* reply, so while every reply carries a request the loop does not select
\* termination.
C9_RunEndsOnPlainReply ==
    /\ \A r \in PlainReplies :
         (InRun /\ node = "route" /\ Last(messages) = r)
         ~> (node = "END" /\ Last(messages) = r)
    /\ [][(InRun /\ node' = "END" /\ node # "END")
          => node = "route" /\ NoRequests(Last(messages)) /\ messages' = messages]_vars
    /\ [][(route /\ ~NoRequests(Last(messages))) => node' = "tools"]_vars
    /\ [](node = "END" => NoRequests(Last(messages)))

\* one reply with a request, then a plain reply: user, assistant with a
\* request, tool result, assistant, and the run has ended
C9_Witness ==
    /\ InRun /\ node = "END"
    /\ Types(messages) = <<"human", "ai", "tool", "ai">>
    /\ Len(messages[2].tool_calls) = 1
    /\ NoRequests(messages[4])

OneUserMessage(ms) ==
    /\ ms[1] = HumanMessage(user_input)
    /\ \A i \in 2..Len(ms) : ms[i].type # "human"

\* C10: a run's conversation starts as the single user message of the line
\* (or canned example) it was started for, and neither the conversation nor
\* what is sent to the model ever holds another user message or anything that
\* precedes that one: nothing of an earlier run is carried over.
C10_RunsShareNoMessages ==
    /\ (InRun /\ node = "chatbot" /\ sent = <<>>) => messages = <<HumanMessage(user_input)>>
    /\ InRun => OneUserMessage(messages)
    /\ (InRun /\ sent # <<>>) => OneUserMessage(sent) /\ IsPrefix(sent, messages)
    /\ ~InRun => messages = <<>> /\ sent = <<>>

\* a run starts after an earlier run, of another line, ended at the Router
C10_Witness ==
    /\ pc = "run" /\ node = "chatbot" /\ sent = <<>>
    /\ ret.fn = "route_tools"
    /\ ret.arg.messages[1] # HumanMessage(user_input)
    /\ Len(ret.arg.messages) = 4

\* the Router runs as soon as the Model Step has returned
FairSpec == Spec /\ WF_vars(route)

====
